---- MODULE Spec2Model ----
(***************************************************************************)
(* Model of the case workspace controller of the PathoAI dashboard         *)
(* (src/app/page.tsx, PathoAIDashboard) together with the REST client it   *)
(* calls (src/lib/api.ts).  The React state cells are the variables; every *)
(* event handler is one action up to its first await, and every            *)
(* continuation after an await (response arrival, success or failure) is   *)
(* one further action.  A continuation reads the values its closure        *)
(* captured when the handler was invoked; functional updates (prev => ..)  *)
(* read the current state.  The useEffect on selectedCase                  *)
(* (loadCaseBillingData) is folded into every action that changes the      *)
(* selectedCase object.                                                    *)
(***************************************************************************)
EXTENDS Integers, Sequences, FiniteSets, Bags, TLC

VARIABLES
  cases,            \* useState<Case[]>                 page.tsx:80
  selectedCase,     \* useState<Case | null>            page.tsx:82
  selAlias,         \* selectedCase is the very object held in cases
  billingAnalysis,  \* useState<BillingAnalysis | null> page.tsx:83
  clickedRegions,   \* useState<Set<number>>            page.tsx:85
  selectedRegion,   \* useState<AnnotatedRegion | null> page.tsx:86 (0 = null)
  isAnalyzing,      \* page.tsx:95
  isVerifying,      \* page.tsx:96
  isDownloading,    \* page.tsx:97
  analyzeReq,       \* analyzeSlide call in flight
  verifyReq,        \* documentVerification call in flight
  billingFetches,   \* slide ids of case-detail fetches in flight
  loadReqs,         \* loadCases calls in flight
  deleteReq,        \* deleteCase call in flight (isDeletingCase)
  createReq,        \* handleAddCase in progress (isCreatingCase)
  server,           \* the backend's case table behind /api/cases
  nextId,           \* slide id the backend gives to the next created case
  editingCase,      \* useState<Case | null>            page.tsx:122
  updateReq,        \* updateCase call in flight (isUpdatingCase)
  revenueReqs,      \* getRevenueSummary calls in flight
  logReqs,          \* logRegionClick calls in flight (a bag)
  searchQuery,      \* useState("")                     page.tsx:90
  statusFilter,     \* useState<string | null>          page.tsx:91
  filteredCases,    \* useState<Case[]>                 page.tsx:81
  ackLog,           \* for each acknowledged id, the click that put it there
  ops,              \* number of user operations the behaviour has left
  lastOp            \* the handler or continuation that ran last

vars == <<cases, selectedCase, selAlias, billingAnalysis, clickedRegions,
          selectedRegion, isAnalyzing, isVerifying, isDownloading,
          analyzeReq, verifyReq, billingFetches, loadReqs, deleteReq,
          createReq, server, nextId, editingCase, updateReq, revenueReqs,
          logReqs, searchQuery, statusFilter, filteredCases, ackLog, ops,
          lastOp>>

editVars == <<editingCase, updateReq>>

filterVars == <<searchQuery, statusFilter>>

viewVars == <<searchQuery, statusFilter, filteredCases>>

\* ---------------------------------------------------------------- bounds
MaxCreates == 1

\* Remote calls outstanding at the same time.
MaxInFlight == 2

\* User operations (clicks) in one behaviour.
MaxOps == 3

\* User operations in one behaviour of the deeper exploration.
MaxDeepOps == 4

\* Characters of a search query.
MaxQueryLen == 2

\* Cases of the collection the filter is explored on.
MaxFilterCases == 2

\* ------------------------------------------------------------- constants
Null == [null |-> TRUE]

Statuses == <<"PENDING", "ANALYZED", "VERIFIED", "EXPORTED">>

Rank(s) == CHOOSE i \in 1..4 : Statuses[i] = s

\* The analysis payloads the backend may return: the ids of the annotated
\* regions and the number of complexity indicators.
Shapes == {1, 2}

Regions(sh) == IF sh = 1 THEN {1} ELSE {2}

NumIndicators(sh) == 1

\* Text is a sequence of characters over a small alphabet with one letter
\* in both cases and the blank.
Chars == {"a", "A", " ", "1"}

InitialServer ==
  << [slide_id |-> 1, status |-> "PENDING",  image |-> TRUE, shape |-> 0,
      patient_id |-> <<"a">>, patient_name |-> <<"A">>, diagnosis |-> <<>>],
     [slide_id |-> 2, status |-> "VERIFIED", image |-> TRUE, shape |-> 1,
      patient_id |-> <<"a">>, patient_name |-> <<"A">>, diagnosis |-> <<>>] >>

\* What the user has typed into the Add Case dialog and the Edit Case dialog
\* when the dialog is submitted.
NewCaseForms ==
  {[patientId |-> <<"a">>, patientName |-> <<"A">>, diagnosis |-> <<>>]}

EditForms ==
  {[patientId |-> <<"A">>, patientName |-> <<"a", "A">>,
    diagnosis |-> <<"a">>]}

\* statusFilter === null
NoStatusFilter == ""

FirstNewId == Len(InitialServer) + 1

\* diagnosis: newCase.diagnosis || 'Pending Diagnosis'
PendingDiagnosis == <<"A", " ", "a">>

\* The row the backend stores for a created case.
NewRow(id, form) ==
  [slide_id |-> id, status |-> "PENDING", image |-> FALSE, shape |-> 0,
   patient_id |-> form.patientId, patient_name |-> form.patientName,
   diagnosis |-> IF form.diagnosis = <<>> THEN PendingDiagnosis
                                          ELSE form.diagnosis]


\* --------------------------------------------------------------- helpers
\* prev.filter(c => c.slide_id !== id)
WithoutSlide(s, id) ==
  LET F[i \in 0..Len(s)] ==
        IF i = 0 THEN <<>>
        ELSE IF s[i].slide_id # id THEN Append(F[i-1], s[i]) ELSE F[i-1]
  IN F[Len(s)]

HasSlide(s, id) == \E i \in 1..Len(s) : s[i].slide_id = id

Find(s, id) == s[CHOOSE i \in 1..Len(s) : s[i].slide_id = id]

\* What GET /api/cases returns for a row of the backend table (type Case).
AsCase(row) ==
  [slide_id |-> row.slide_id, status |-> row.status, image |-> row.image,
   patient_id |-> row.patient_id, patient_name |-> row.patient_name,
   diagnosis |-> row.diagnosis]

\* prev.map(c => c.slide_id === id ? { ...c, status } : c)
SetStatus(s, id, st) ==
  [i \in 1..Len(s) |->
     IF s[i].slide_id = id THEN [s[i] EXCEPT !.status = st] ELSE s[i]]

\* prev => prev ? { ...prev, status } : null
SelStatus(sel, st) == IF sel = Null THEN Null ELSE [sel EXCEPT !.status = st]

\* The backend records a status change; it never moves a case backward.
ServerSetStatus(s, id, st) ==
  [i \in 1..Len(s) |->
     IF s[i].slide_id = id /\ Rank(s[i].status) < Rank(st)
       THEN [s[i] EXCEPT !.status = st] ELSE s[i]]

\* The backend stores the analysis payload it returned for a slide.
ServerSetShape(s, id, sh) ==
  [i \in 1..Len(s) |->
     IF s[i].slide_id = id THEN [s[i] EXCEPT !.shape = sh] ELSE s[i]]

\* The backend stores the uploaded image of a slide.
ServerSetImage(s, id) ==
  [i \in 1..Len(s) |->
     IF s[i].slide_id = id THEN [s[i] EXCEPT !.image = TRUE] ELSE s[i]]

\* The backend stores the edited fields of a slide.
ServerUpdate(s, id, form) ==
  [i \in 1..Len(s) |->
     IF s[i].slide_id = id
       THEN [s[i] EXCEPT !.patient_id = form.patientId,
                         !.patient_name = form.patientName,
                         !.diagnosis = form.diagnosis]
       ELSE s[i]]

\* { ...c, patient_id: editForm.patientId, patient_name: editForm.patientName,
\*   diagnosis: editForm.diagnosis }
WithForm(c, form) ==
  [c EXCEPT !.patient_id = form.patientId,
            !.patient_name = form.patientName,
            !.diagnosis = form.diagnosis]

\* prev.map(c => c.slide_id === id ? { ...c, <form fields> } : c)
SetForm(s, id, form) ==
  [i \in 1..Len(s) |->
     IF s[i].slide_id = id THEN WithForm(s[i], form) ELSE s[i]]

\* The body of a successful GET /api/cases.
GetCases == [i \in 1..Len(server) |-> AsCase(server[i])]

\* ---------------------------------------------------- the filter effect
\* String.prototype.toLowerCase
LowerChar(c) == IF c = "A" THEN "a" ELSE c

ToLowerCase(t) == [i \in 1..Len(t) |-> LowerChar(t[i])]

\* String.prototype.trim
Trim(t) ==
  LET ink == {i \in 1..Len(t) : t[i] # " "}
  IN IF ink = {} THEN <<>>
     ELSE SubSeq(t, CHOOSE i \in ink : \A j \in ink : i <= j,
                    CHOOSE i \in ink : \A j \in ink : i >= j)

\* String.prototype.includes
Includes(t, q) ==
  \E i \in 0..(Len(t) - Len(q)) : SubSeq(t, i + 1, i + Len(q)) = q

\* The text of a slide id.
SlideIdText(id) == <<ToString(id)>>

\* The predicate of the search filter; query is already lower-cased.
MatchesQuery(c, query) ==
  \/ Includes(ToLowerCase(c.patient_name), query)
  \/ Includes(ToLowerCase(SlideIdText(c.slide_id)), query)
  \/ Includes(ToLowerCase(c.patient_id), query)
  \/ Includes(ToLowerCase(c.diagnosis), query)

\* The filter effect with the status filter applied to the whole collection
\* instead of the text matches.
FilteredCases_StatusOnCases(cs, q, f) ==
  LET query == ToLowerCase(q)
      TextOK(c) == MatchesQuery(c, query)
      StatusOK(c) == c.status = f
      byText == IF Trim(q) # <<>> THEN SelectSeq(cs, TextOK) ELSE cs
  IN IF f # NoStatusFilter THEN SelectSeq(cs, StatusOK) ELSE byText

\* The value the effect on [cases, searchQuery, statusFilter] stores in
\* filteredCases.
FilteredCases(cs, q, f) ==
  LET query == ToLowerCase(q)
      TextOK(c) == MatchesQuery(c, query)
      StatusOK(c) == c.status = f
      byText == IF Trim(q) # <<>> THEN SelectSeq(cs, TextOK) ELSE cs
  IN IF f # NoStatusFilter THEN SelectSeq(byText, StatusOK) ELSE byText

\* The effect storing the kept cases in the opposite order.
FilterEffect_Reversed(q, f) ==
  LET kept == FilteredCases(cases', q, f)
  IN filteredCases' = [i \in 1..Len(kept) |-> kept[Len(kept) + 1 - i]]

\* The effect runs after every render in which cases, searchQuery or
\* statusFilter changed; q and f are the values of that render.
FilterEffect(q, f) == filteredCases' = FilteredCases(cases', q, f)

\* ------------------------------------------- useEffect on selectedCase
\* useEffect(() => { if (selectedCase) loadCaseBillingData(selectedCase) })
\* runs after every render in which the selectedCase object changed.  For a
\* PENDING case it clears the analysis at once; otherwise it starts a
\* case-detail fetch and leaves the analysis as it is until the response.
EffectBilling(sel, base) ==
  IF sel # Null /\ sel.status = "PENDING" THEN Null ELSE base

EffectFetches(sel) ==
  IF sel # Null /\ sel.status # "PENDING"
    THEN billingFetches \cup {sel.slide_id}
    ELSE billingFetches

\* Book-keeping of object identity for the closure of a delete in flight
\* whose captured selection is the case being deleted: whether the entry of
\* cases for the captured fallback case (remaining[0]) is still the captured
\* object (nextFresh), and whether selectedCase is that object (selIsNext).
\* replacedIds are the entries of cases an action replaces by new objects;
\* selTo is the slide id of the list object the action selects, 0 when it
\* leaves selectedCase alone and -1 when it stores any other object.
DelTrack(replacedIds, selTo) ==
  IF deleteReq = Null \/ deleteReq.next = Null THEN deleteReq
  ELSE [deleteReq EXCEPT
          !.nextFresh = @ /\ deleteReq.next.slide_id \notin replacedIds,
          !.selIsNext = IF selTo = 0 THEN @
                        ELSE deleteReq.nextFresh
                               /\ selTo = deleteReq.next.slide_id]

\* Remote calls outstanding.
InFlight ==
  (IF analyzeReq = Null THEN 0 ELSE 1) + (IF verifyReq = Null THEN 0 ELSE 1)
    + (IF deleteReq = Null THEN 0 ELSE 1) + (IF createReq = Null THEN 0 ELSE 1)
    + (IF updateReq = Null THEN 0 ELSE 1)
    + Cardinality(billingFetches) + Cardinality(loadReqs)
    + revenueReqs + BagCardinality(logReqs)

Room == InFlight < MaxInFlight

\* A user operation: counted against the budget of the behaviour.
UserOp == ops > 0 /\ ops' = ops - 1

AllIds(s) == {s[i].slide_id : i \in 1..Len(s)}

\* ------------------------------------------------------ derived values
\* canVerify without the acknowledged-region gate.
canVerify_NoAckGate == billingAnalysis # Null

canVerify == billingAnalysis # Null /\ Cardinality(clickedRegions) >= 1

\* isVerified for a selected case of any status.
isVerified_AnyStatus == selectedCase # Null

isVerified ==
  selectedCase # Null /\ selectedCase.status \in {"VERIFIED", "EXPORTED"}

VerifyButtonDisabled ==
  (~canVerify /\ ~isVerified) \/ isVerifying \/ isDownloading

AnalyzeButtonShown ==
  /\ selectedCase # Null
  /\ billingAnalysis = Null
  /\ ~isAnalyzing
  /\ selectedCase.status = "PENDING"

\* ------------------------------------------------------------- initial
\* State after the first render and the mount effect, which calls
\* loadCases() and loadRevenueSummary().
InitWith(budget) ==
  /\ cases = <<>>
  /\ selectedCase = Null
  /\ selAlias = FALSE
  /\ billingAnalysis = Null
  /\ clickedRegions = {}
  /\ selectedRegion = 0
  /\ isAnalyzing = FALSE
  /\ isVerifying = FALSE
  /\ isDownloading = FALSE
  /\ analyzeReq = Null
  /\ verifyReq = Null
  /\ billingFetches = {}
  /\ loadReqs = {[selNull |-> TRUE]}
  /\ deleteReq = Null
  /\ createReq = Null
  /\ server = InitialServer
  /\ nextId = FirstNewId
  /\ editingCase = Null
  /\ updateReq = Null
  /\ revenueReqs = 1
  /\ logReqs = EmptyBag
  /\ searchQuery = <<>>
  /\ statusFilter = NoStatusFilter
  /\ filteredCases = <<>>
  /\ ackLog = {}
  /\ ops = budget
  /\ lastOp = [op |-> "mount", id |-> 0]

Init == InitWith(MaxOps)

\* ------------------------------------------------------------ loadCases
\* The refresh button calls loadCases; the closure captures whether a case
\* was selected in the render the click happened in.
LoadCases ==
  /\ UserOp
  /\ Room
  /\ loadReqs' = loadReqs \cup {[selNull |-> (selectedCase = Null)]}
  /\ lastOp' = [op |-> "load", id |-> 0]
  /\ UNCHANGED <<cases, selectedCase, selAlias, billingAnalysis,
                 clickedRegions, selectedRegion, isAnalyzing, isVerifying,
                 isDownloading, analyzeReq, verifyReq, billingFetches,
                 deleteReq, createReq, server, nextId,
                 editVars, revenueReqs, logReqs, ackLog, viewVars>>

\* setCases(data); if (data.length > 0 && !selectedCase) setSelectedCase(data[0])
ApplyLoad(selNull) ==
  LET data == GetCases
      pick == Len(data) > 0 /\ selNull
      sel  == IF pick THEN data[1] ELSE selectedCase
  IN /\ cases' = data
     /\ FilterEffect(searchQuery, statusFilter)
     /\ selectedCase' = sel
     /\ selAlias' = pick
     /\ billingAnalysis' = IF pick THEN EffectBilling(sel, billingAnalysis)
                                   ELSE billingAnalysis
     /\ billingFetches' = IF pick THEN EffectFetches(sel) ELSE billingFetches
     /\ deleteReq' = DelTrack(AllIds(cases), IF pick THEN -1 ELSE 0)

LoadCasesOK ==
  \E r \in loadReqs :
    /\ loadReqs' = loadReqs \ {r}
    /\ ApplyLoad(r.selNull)
    /\ lastOp' = [op |-> "loadOK", id |-> 0]
    /\ UNCHANGED <<clickedRegions, selectedRegion, isAnalyzing, isVerifying,
                   isDownloading, analyzeReq, verifyReq, createReq, server,
                   nextId, ops,
                   editVars, revenueReqs, logReqs, ackLog, filterVars>>

LoadCasesFail ==
  \E r \in loadReqs :
    /\ loadReqs' = loadReqs \ {r}
    /\ lastOp' = [op |-> "loadFail", id |-> 0]
    /\ UNCHANGED <<cases, selectedCase, selAlias, billingAnalysis,
                   clickedRegions, selectedRegion, isAnalyzing, isVerifying,
                   isDownloading, analyzeReq, verifyReq, billingFetches,
                   deleteReq, createReq, server, nextId, ops,
                   editVars, revenueReqs, logReqs, ackLog, viewVars>>

\* ---------------------------------------------------------- select case
\* onClick of a case list item: setSelectedCase(caseItem);
\* setClickedRegions(new Set()); setSelectedRegion(null).  When caseItem is
\* the object already held in selectedCase nothing re-renders for it and
\* the effect does not run.
\* The click handler without setClickedRegions(new Set()).
OnClickCase_KeepClicks(item) ==
  LET same == selAlias /\ selectedCase # Null
                /\ selectedCase.slide_id = item.slide_id
  IN /\ selectedCase' = item
     /\ selAlias' = TRUE
     /\ clickedRegions' = clickedRegions
     /\ ackLog' = ackLog
     /\ selectedRegion' = 0
     /\ billingAnalysis' = IF same THEN billingAnalysis
                                   ELSE EffectBilling(item, billingAnalysis)
     /\ billingFetches' = IF same THEN billingFetches ELSE EffectFetches(item)
     /\ deleteReq' = DelTrack({}, item.slide_id)

OnClickCase(item) ==
  LET same == selAlias /\ selectedCase # Null
                /\ selectedCase.slide_id = item.slide_id
  IN /\ selectedCase' = item
     /\ selAlias' = TRUE
     /\ clickedRegions' = {}
     /\ ackLog' = {}
     /\ selectedRegion' = 0
     /\ billingAnalysis' = IF same THEN billingAnalysis
                                   ELSE EffectBilling(item, billingAnalysis)
     /\ billingFetches' = IF same THEN billingFetches ELSE EffectFetches(item)
     /\ deleteReq' = DelTrack({}, item.slide_id)

SelectCase ==
  /\ UserOp
  /\ \E i \in 1..Len(filteredCases) :
       /\ Room \/ EffectFetches(filteredCases[i]) = billingFetches
       /\ OnClickCase(filteredCases[i])
       /\ lastOp' = [op |-> "select", id |-> filteredCases[i].slide_id]
  /\ UNCHANGED <<cases, isAnalyzing, isVerifying, isDownloading, analyzeReq,
                 verifyReq, loadReqs, createReq, server, nextId,
                 editVars, revenueReqs, logReqs, viewVars>>

\* -------------------------------------------------------------- analyze
HandleAnalyzeStart ==
  /\ isAnalyzing' = TRUE
  /\ billingAnalysis' = Null
  /\ clickedRegions' = {}
  /\ ackLog' = {}
  /\ selectedRegion' = 0
  /\ analyzeReq' = [slide_id |-> selectedCase.slide_id]

Analyze ==
  /\ UserOp
  /\ Room
  /\ AnalyzeButtonShown
  /\ selectedCase # Null
  /\ HandleAnalyzeStart
  /\ lastOp' = [op |-> "analyze", id |-> selectedCase.slide_id]
  /\ UNCHANGED <<cases, selectedCase, selAlias, isVerifying, isDownloading,
                 verifyReq, billingFetches, loadReqs, deleteReq, createReq,
                 server, nextId,
                 editVars, revenueReqs, logReqs, viewVars>>

\* Continuation after analyzeSlide resolved: setBillingAnalysis(result),
\* the captured case is marked ANALYZED in cases, and whatever case is
\* selected now is marked ANALYZED through the functional update.
AnalyzeSuccess(id, sh) ==
  LET sel == SelStatus(selectedCase, "ANALYZED")
  IN /\ cases' = SetStatus(cases, id, "ANALYZED")
     /\ FilterEffect(searchQuery, statusFilter)
     /\ selectedCase' = sel
     /\ selAlias' = FALSE
     /\ billingAnalysis' = [slide_id |-> id, shape |-> sh]
     /\ billingFetches' = EffectFetches(sel)
     /\ deleteReq' = DelTrack({id}, IF sel # Null THEN -1 ELSE 0)

AnalyzeOK ==
  /\ analyzeReq # Null
  /\ HasSlide(server, analyzeReq.slide_id)
  /\ \E sh \in Shapes :
       /\ AnalyzeSuccess(analyzeReq.slide_id, sh)
       /\ server' = ServerSetShape(
                      ServerSetStatus(server, analyzeReq.slide_id, "ANALYZED"),
                      analyzeReq.slide_id, sh)
  /\ isAnalyzing' = FALSE
  /\ analyzeReq' = Null
  /\ lastOp' = [op |-> "analyzeOK", id |-> analyzeReq.slide_id]
  /\ UNCHANGED <<clickedRegions, selectedRegion, isVerifying, isDownloading,
                 verifyReq, loadReqs, createReq, nextId, ops,
                 editVars, revenueReqs, logReqs, ackLog, filterVars>>

\* The catch block that sends the analyze call again.
AnalyzeFail_Retry ==
  /\ analyzeReq # Null
  /\ lastOp' = [op |-> "analyzeFail", id |-> analyzeReq.slide_id]
  /\ UNCHANGED <<cases, selectedCase, selAlias, billingAnalysis,
                 clickedRegions, selectedRegion, isAnalyzing, analyzeReq,
                 isVerifying, isDownloading,
                 verifyReq, billingFetches, loadReqs, deleteReq, createReq,
                 server, nextId, ops,
                 editVars, revenueReqs, logReqs, ackLog, viewVars>>

AnalyzeFail ==
  /\ analyzeReq # Null
  /\ isAnalyzing' = FALSE
  /\ analyzeReq' = Null
  /\ lastOp' = [op |-> "analyzeFail", id |-> analyzeReq.slide_id]
  /\ UNCHANGED <<cases, selectedCase, selAlias, billingAnalysis,
                 clickedRegions, selectedRegion, isVerifying, isDownloading,
                 verifyReq, billingFetches, loadReqs, deleteReq, createReq,
                 server, nextId, ops,
                 editVars, revenueReqs, logReqs, ackLog, viewVars>>

\* --------------------------------------------------- case-detail fetch
\* Continuation of loadCaseBillingData after the fetch of the case detail:
\* the analysis is rebuilt from the stored fields when the backend holds
\* analysis data for the case, and cleared otherwise or on any failure.
\* The response is applied whichever case is selected by then.
BillingFetchOK ==
  \E id \in billingFetches :
    /\ HasSlide(server, id)
    /\ billingFetches' = billingFetches \ {id}
    /\ billingAnalysis' =
         IF Find(server, id).shape # 0
           THEN [slide_id |-> id, shape |-> Find(server, id).shape]
           ELSE Null
    /\ lastOp' = [op |-> "fetchOK", id |-> id]
    /\ UNCHANGED <<cases, selectedCase, selAlias, clickedRegions,
                   selectedRegion, isAnalyzing, isVerifying, isDownloading,
                   analyzeReq, verifyReq, loadReqs, deleteReq, createReq,
                   server, nextId, ops,
                   editVars, revenueReqs, logReqs, ackLog, viewVars>>

BillingFetchFail ==
  \E id \in billingFetches :
    /\ billingFetches' = billingFetches \ {id}
    /\ billingAnalysis' = Null
    /\ lastOp' = [op |-> "fetchFail", id |-> id]
    /\ UNCHANGED <<cases, selectedCase, selAlias, clickedRegions,
                   selectedRegion, isAnalyzing, isVerifying, isDownloading,
                   analyzeReq, verifyReq, loadReqs, deleteReq, createReq,
                   server, nextId, ops,
                   editVars, revenueReqs, logReqs, ackLog, viewVars>>

\* --------------------------------------------------------- region click
\* The region buttons are rendered over the slide image only, for the
\* regions of the analysis held in state.  The logging call is awaited
\* after both state updates and its outcome changes no state.
\* The update that removes an id already in the set (a toggle).
Acknowledge_Toggle(prev, id) ==
  IF id \in prev THEN prev \ {id} ELSE prev \cup {id}

\* prev => new Set([...prev, region.id])
Acknowledge(prev, id) == prev \cup {id}

RegionClick ==
  /\ UserOp
  /\ Room
  /\ selectedCase # Null
  /\ billingAnalysis # Null
  /\ selectedCase.image
  /\ \E r \in Regions(billingAnalysis.shape) :
       /\ selectedRegion' = r
       /\ clickedRegions' = Acknowledge(clickedRegions, r)
       /\ logReqs' = logReqs (+) SetToBag({[slide_id |-> selectedCase.slide_id,
                                            region   |-> r]})
       /\ ackLog' = ackLog \cup {[id       |-> r,
                                   slide_id |-> selectedCase.slide_id,
                                   analysis |-> billingAnalysis]}
       /\ lastOp' = [op |-> "regionClick", id |-> r]
  /\ UNCHANGED <<cases, selectedCase, selAlias, billingAnalysis, isAnalyzing,
                 isVerifying, isDownloading, analyzeReq, verifyReq,
                 billingFetches, loadReqs, deleteReq, createReq, server,
                 nextId,
                 editVars, revenueReqs, viewVars>>

\* Continuation of handleRegionClick after logRegionClick resolved: nothing.
LogRegionClickOK ==
  \E req \in BagToSet(logReqs) :
    /\ logReqs' = logReqs (-) SetToBag({req})
    /\ lastOp' = [op |-> "logOK", id |-> req.region]
    /\ UNCHANGED <<cases, selectedCase, selAlias, billingAnalysis,
                   clickedRegions, selectedRegion, isAnalyzing, isVerifying,
                   isDownloading, analyzeReq, verifyReq, billingFetches,
                   loadReqs, deleteReq, createReq, server, nextId, ops,
                   editVars, revenueReqs, viewVars, ackLog>>

\* The catch block that reverts the acknowledgment of the region.
LogRegionClickFail_Revert ==
  \E req \in BagToSet(logReqs) :
    /\ logReqs' = logReqs (-) SetToBag({req})
    /\ clickedRegions' = clickedRegions \ {req.region}
    /\ lastOp' = [op |-> "logFail", id |-> req.region]
    /\ UNCHANGED <<cases, selectedCase, selAlias, billingAnalysis,
                   selectedRegion, isAnalyzing, isVerifying,
                   isDownloading, analyzeReq, verifyReq, billingFetches,
                   loadReqs, deleteReq, createReq, server, nextId, ops,
                   editVars, revenueReqs, viewVars, ackLog>>

\* Continuation after logRegionClick threw: console.error only.
LogRegionClickFail ==
  \E req \in BagToSet(logReqs) :
    /\ logReqs' = logReqs (-) SetToBag({req})
    /\ lastOp' = [op |-> "logFail", id |-> req.region]
    /\ UNCHANGED <<cases, selectedCase, selAlias, billingAnalysis,
                   clickedRegions, selectedRegion, isAnalyzing, isVerifying,
                   isDownloading, analyzeReq, verifyReq, billingFetches,
                   loadReqs, deleteReq, createReq, server, nextId, ops,
                   editVars, revenueReqs, viewVars, ackLog>>

\* --------------------------------------------------------------- verify
\* complexity_indicators.filter((_, i) => clickedRegions.has(i + 1))
IndicatorsClicked(sh, clicked) ==
  {i \in 1..NumIndicators(sh) : i \in clicked}

Verify ==
  /\ UserOp
  /\ Room
  /\ ~VerifyButtonDisabled
  /\ ~isVerified
  /\ selectedCase # Null
  /\ billingAnalysis # Null
  /\ isVerifying' = TRUE
  /\ verifyReq' = [slide_id |-> selectedCase.slide_id,
                   clicked  |-> clickedRegions,
                   billing  |-> billingAnalysis]
  /\ lastOp' = [op |-> "verify", id |-> selectedCase.slide_id]
  /\ UNCHANGED <<cases, selectedCase, selAlias, billingAnalysis,
                 clickedRegions, selectedRegion, isAnalyzing, isDownloading,
                 analyzeReq, billingFetches, loadReqs, deleteReq, createReq,
                 server, nextId,
                 editVars, revenueReqs, logReqs, ackLog, viewVars>>

VerifySuccess(id) ==
  LET sel == SelStatus(selectedCase, "VERIFIED")
  IN /\ cases' = SetStatus(cases, id, "VERIFIED")
     /\ FilterEffect(searchQuery, statusFilter)
     /\ selectedCase' = sel
     /\ selAlias' = FALSE
     /\ billingFetches' = EffectFetches(sel)
     /\ deleteReq' = DelTrack({id}, IF sel # Null THEN -1 ELSE 0)

VerifyOK ==
  /\ verifyReq # Null
  /\ HasSlide(server, verifyReq.slide_id)
  /\ VerifySuccess(verifyReq.slide_id)
  /\ server' = ServerSetStatus(server, verifyReq.slide_id, "VERIFIED")
  /\ isVerifying' = FALSE
  /\ verifyReq' = Null
  /\ revenueReqs' = revenueReqs + 1
  /\ lastOp' = [op |-> "verifyOK", id |-> verifyReq.slide_id]
  /\ UNCHANGED <<billingAnalysis, clickedRegions, selectedRegion, isAnalyzing,
                 isDownloading, analyzeReq, loadReqs, createReq, nextId, ops,
                 editVars, logReqs, ackLog, filterVars>>

VerifyFail ==
  /\ verifyReq # Null
  /\ isVerifying' = FALSE
  /\ verifyReq' = Null
  /\ lastOp' = [op |-> "verifyFail", id |-> verifyReq.slide_id]
  /\ UNCHANGED <<cases, selectedCase, selAlias, billingAnalysis,
                 clickedRegions, selectedRegion, isAnalyzing, isDownloading,
                 analyzeReq, billingFetches, loadReqs, deleteReq, createReq,
                 server, nextId, ops,
                 editVars, revenueReqs, logReqs, ackLog, viewVars>>

\* ----------------------------------------------------------- export PDF
\* The footer button calls handleDownloadPDF when isVerified.  The download
\* is a navigation the handler does not wait for; the case is marked
\* EXPORTED at once and isDownloading is reset by a 500 ms timer.
DownloadPDF ==
  /\ UserOp
  /\ ~VerifyButtonDisabled
  /\ isVerified
  /\ selectedCase # Null
  /\ Room \/ EffectFetches(selectedCase) = billingFetches
  /\ LET id  == selectedCase.slide_id
         sel == SelStatus(selectedCase, "EXPORTED")
     IN /\ isDownloading' = TRUE
        /\ cases' = SetStatus(cases, id, "EXPORTED")
        /\ FilterEffect(searchQuery, statusFilter)
        /\ selectedCase' = sel
        /\ selAlias' = FALSE
        /\ billingFetches' = EffectFetches(sel)
        /\ deleteReq' = DelTrack({id}, -1)
        /\ server' = ServerSetStatus(server, id, "EXPORTED")
        /\ lastOp' = [op |-> "download", id |-> id]
  /\ UNCHANGED <<billingAnalysis, clickedRegions, selectedRegion, isAnalyzing,
                 isVerifying, analyzeReq, verifyReq, loadReqs, createReq,
                 nextId,
                 editVars, revenueReqs, logReqs, ackLog, filterVars>>

DownloadTimer ==
  /\ isDownloading
  /\ isDownloading' = FALSE
  /\ lastOp' = [op |-> "downloadTimer", id |-> 0]
  /\ UNCHANGED <<cases, selectedCase, selAlias, billingAnalysis,
                 clickedRegions, selectedRegion, isAnalyzing, isVerifying,
                 analyzeReq, verifyReq, billingFetches, loadReqs, deleteReq,
                 createReq, server, nextId, ops,
                 editVars, revenueReqs, logReqs, ackLog, viewVars>>

\* --------------------------------------------------------------- delete
\* Confirming the delete dialog calls handleDeleteCase, whose closure holds
\* caseToDelete, selectedCase and cases of the render it was clicked in.
DeleteCase ==
  /\ UserOp
  /\ Room
  /\ deleteReq = Null
  /\ \E i \in 1..Len(filteredCases) :
       LET id        == filteredCases[i].slide_id
           selMatch  == selectedCase # Null /\ selectedCase.slide_id = id
           remaining == WithoutSlide(cases, id)
       IN
       /\ deleteReq' = [id        |-> id,
                        selMatch  |-> selMatch,
                        next      |-> IF selMatch /\ Len(remaining) > 0
                                        THEN remaining[1] ELSE Null,
                        nextFresh |-> selMatch /\ Len(remaining) > 0,
                        selIsNext |-> FALSE]
       /\ lastOp' = [op |-> "delete", id |-> id]
  /\ UNCHANGED <<cases, selectedCase, selAlias, billingAnalysis,
                 clickedRegions, selectedRegion, isAnalyzing, isVerifying,
                 isDownloading, analyzeReq, verifyReq, billingFetches,
                 loadReqs, createReq, server, nextId,
                 editVars, revenueReqs, logReqs, ackLog, viewVars>>

\* The continuation that falls back and clears the analysis whichever case
\* was selected.
DeleteSuccess_AlwaysFallsBack(req) ==
  LET remaining == WithoutSlide(cases, req.id)
      new       == IF Len(remaining) > 0 THEN remaining[1] ELSE Null
  IN /\ cases' = remaining
     /\ FilterEffect(searchQuery, statusFilter)
     /\ selectedCase' = new
     /\ selAlias' = (new # Null)
     /\ billingAnalysis' = Null
     /\ billingFetches' = EffectFetches(new)

\* Continuation after deleteCase resolved.
DeleteSuccess(req) ==
  LET new     == req.next
      sameObj == new # Null /\ req.selIsNext
  IN /\ cases' = WithoutSlide(cases, req.id)
     /\ FilterEffect(searchQuery, statusFilter)
     /\ IF req.selMatch
          THEN /\ selectedCase' = new
               /\ selAlias' = (new # Null /\ req.nextFresh)
               /\ billingAnalysis' = Null
               /\ billingFetches' = IF sameObj THEN billingFetches
                                               ELSE EffectFetches(new)
          ELSE UNCHANGED <<selectedCase, selAlias, billingAnalysis,
                           billingFetches>>

DeleteOK ==
  /\ deleteReq # Null
  /\ HasSlide(server, deleteReq.id)
  /\ DeleteSuccess(deleteReq)
  /\ server' = WithoutSlide(server, deleteReq.id)
  /\ deleteReq' = Null
  /\ revenueReqs' = revenueReqs + 1
  /\ lastOp' = [op |-> "deleteOK", id |-> deleteReq.id]
  /\ UNCHANGED <<clickedRegions, selectedRegion, isAnalyzing, isVerifying,
                 isDownloading, analyzeReq, verifyReq, loadReqs, createReq,
                 nextId, ops,
                 editVars, logReqs, ackLog, filterVars>>

DeleteFail ==
  /\ deleteReq # Null
  /\ deleteReq' = Null
  /\ lastOp' = [op |-> "deleteFail", id |-> deleteReq.id]
  /\ UNCHANGED <<cases, selectedCase, selAlias, billingAnalysis,
                 clickedRegions, selectedRegion, isAnalyzing, isVerifying,
                 isDownloading, analyzeReq, verifyReq, billingFetches,
                 loadReqs, createReq, server, nextId, ops,
                 editVars, revenueReqs, logReqs, ackLog, viewVars>>

\* --------------------------------------------------------------- create
\* handleAddCase: createCase, then the optional image upload, then
\* await loadCases(), then a second getCases() whose entry for the created
\* slide id becomes the selected case.
CreateCase ==
  /\ UserOp
  /\ Room
  /\ createReq = Null
  /\ nextId < FirstNewId + MaxCreates
  /\ \E form \in NewCaseForms :
       createReq' = [phase |-> "create", selNull |-> (selectedCase = Null),
                     form |-> form, id |-> 0]
  /\ lastOp' = [op |-> "create", id |-> 0]
  /\ UNCHANGED <<cases, selectedCase, selAlias, billingAnalysis,
                 clickedRegions, selectedRegion, isAnalyzing, isVerifying,
                 isDownloading, analyzeReq, verifyReq, billingFetches,
                 loadReqs, deleteReq, server, nextId,
                 editVars, revenueReqs, logReqs, ackLog, viewVars>>

CreateOK ==
  /\ createReq # Null
  /\ createReq.phase = "create"
  /\ server' = Append(server, NewRow(nextId, createReq.form))
  /\ nextId' = nextId + 1
  /\ \E selectedFile \in BOOLEAN :
       createReq' = [createReq EXCEPT
                       !.phase = IF selectedFile THEN "upload" ELSE "load",
                       !.id = nextId]
  /\ lastOp' = [op |-> "createOK", id |-> nextId]
  /\ UNCHANGED <<cases, selectedCase, selAlias, billingAnalysis,
                 clickedRegions, selectedRegion, isAnalyzing, isVerifying,
                 isDownloading, analyzeReq, verifyReq, billingFetches,
                 loadReqs, deleteReq, ops,
                 editVars, revenueReqs, logReqs, ackLog, viewVars>>

CreateFail ==
  /\ createReq # Null
  /\ createReq.phase \in {"create", "get"}
  /\ createReq' = Null
  /\ lastOp' = [op |-> "createFail", id |-> createReq.id]
  /\ UNCHANGED <<cases, selectedCase, selAlias, billingAnalysis,
                 clickedRegions, selectedRegion, isAnalyzing, isVerifying,
                 isDownloading, analyzeReq, verifyReq, billingFetches,
                 loadReqs, deleteReq, server, nextId, ops,
                 editVars, revenueReqs, logReqs, ackLog, viewVars>>

\* The upload whose failure leaves handleAddCase through its outer catch.
CreateUploadDone_FailureAborts ==
  /\ createReq # Null
  /\ createReq.phase = "upload"
  /\ \E ok \in BOOLEAN :
       /\ ok => HasSlide(server, createReq.id)
       /\ server' = IF ok THEN ServerSetImage(server, createReq.id)
                           ELSE server
       /\ lastOp' = [op |-> IF ok THEN "uploadOK" ELSE "uploadFail",
                     id |-> createReq.id]
       /\ createReq' = IF ok THEN [createReq EXCEPT !.phase = "load"]
                             ELSE Null
  /\ UNCHANGED <<cases, selectedCase, selAlias, billingAnalysis,
                 clickedRegions, selectedRegion, isAnalyzing, isVerifying,
                 isDownloading, analyzeReq, verifyReq, billingFetches,
                 loadReqs, deleteReq, nextId, ops,
                 editVars, revenueReqs, logReqs, ackLog, viewVars>>

\* uploadSlideImage inside handleAddCase; its failure is caught and logged.
CreateUploadDone ==
  /\ createReq # Null
  /\ createReq.phase = "upload"
  /\ \E ok \in BOOLEAN :
       /\ ok => HasSlide(server, createReq.id)
       /\ server' = IF ok THEN ServerSetImage(server, createReq.id)
                           ELSE server
       /\ lastOp' = [op |-> IF ok THEN "uploadOK" ELSE "uploadFail",
                     id |-> createReq.id]
       /\ createReq' = [createReq EXCEPT !.phase = "load"]
  /\ UNCHANGED <<cases, selectedCase, selAlias, billingAnalysis,
                 clickedRegions, selectedRegion, isAnalyzing, isVerifying,
                 isDownloading, analyzeReq, verifyReq, billingFetches,
                 loadReqs, deleteReq, nextId, ops,
                 editVars, revenueReqs, logReqs, ackLog, viewVars>>

\* await loadCases() inside handleAddCase; loadCases catches its own error.
CreateLoadOK ==
  /\ createReq # Null
  /\ createReq.phase = "load"
  /\ ApplyLoad(createReq.selNull)
  /\ createReq' = [createReq EXCEPT !.phase = "get"]
  /\ lastOp' = [op |-> "createLoadOK", id |-> createReq.id]
  /\ UNCHANGED <<clickedRegions, selectedRegion, isAnalyzing, isVerifying,
                 isDownloading, analyzeReq, verifyReq, loadReqs, server,
                 nextId, ops,
                 editVars, revenueReqs, logReqs, ackLog, filterVars>>

CreateLoadFail ==
  /\ createReq # Null
  /\ createReq.phase = "load"
  /\ createReq' = [createReq EXCEPT !.phase = "get"]
  /\ lastOp' = [op |-> "createLoadFail", id |-> createReq.id]
  /\ UNCHANGED <<cases, selectedCase, selAlias, billingAnalysis,
                 clickedRegions, selectedRegion, isAnalyzing, isVerifying,
                 isDownloading, analyzeReq, verifyReq, billingFetches,
                 loadReqs, deleteReq, server, nextId, ops,
                 editVars, revenueReqs, logReqs, ackLog, viewVars>>

\* const createdCase = newCases.find(..); if (createdCase) setSelectedCase(createdCase)
CreateGetOK ==
  /\ createReq # Null
  /\ createReq.phase = "get"
  /\ IF HasSlide(server, createReq.id)
       THEN LET new == AsCase(Find(server, createReq.id))
            IN /\ selectedCase' = new
               /\ selAlias' = FALSE
               /\ billingAnalysis' = EffectBilling(new, billingAnalysis)
               /\ billingFetches' = EffectFetches(new)
               /\ deleteReq' = DelTrack({}, -1)
       ELSE UNCHANGED <<selectedCase, selAlias, billingAnalysis,
                        billingFetches, deleteReq>>
  /\ createReq' = Null
  /\ lastOp' = [op |-> "createGetOK", id |-> createReq.id]
  /\ UNCHANGED <<cases, clickedRegions, selectedRegion, isAnalyzing,
                 isVerifying, isDownloading, analyzeReq, verifyReq, loadReqs,
                 server, nextId, ops,
                 editVars, revenueReqs, logReqs, ackLog, viewVars>>

\* ----------------------------------------------------- revenue summary
\* Continuation of loadRevenueSummary: setRevenueSummary(data), or the
\* failure is logged.  The summary is read by the dashboard tiles only and
\* is not a variable here.
LoadRevenueSummaryOK ==
  /\ revenueReqs > 0
  /\ revenueReqs' = revenueReqs - 1
  /\ lastOp' = [op |-> "revenueOK", id |-> 0]
  /\ UNCHANGED <<cases, selectedCase, selAlias, billingAnalysis,
                 clickedRegions, selectedRegion, isAnalyzing, isVerifying,
                 isDownloading, analyzeReq, verifyReq, billingFetches,
                 loadReqs, deleteReq, createReq, server, nextId, ops,
                 editVars, logReqs, ackLog, viewVars>>

LoadRevenueSummaryFail ==
  /\ revenueReqs > 0
  /\ revenueReqs' = revenueReqs - 1
  /\ lastOp' = [op |-> "revenueFail", id |-> 0]
  /\ UNCHANGED <<cases, selectedCase, selAlias, billingAnalysis,
                 clickedRegions, selectedRegion, isAnalyzing, isVerifying,
                 isDownloading, analyzeReq, verifyReq, billingFetches,
                 loadReqs, deleteReq, createReq, server, nextId, ops,
                 editVars, logReqs, ackLog, viewVars>>

\* ----------------------------------------------------------------- edit
\* The Edit item of a case's menu: setEditingCase(caseItem) and the form is
\* filled from the case.  Of editingCase only the slide id is read later.
OpenEditModal ==
  /\ UserOp
  /\ \E i \in 1..Len(filteredCases) :
       /\ editingCase' = [slide_id |-> filteredCases[i].slide_id]
       /\ lastOp' = [op |-> "openEdit", id |-> filteredCases[i].slide_id]
  /\ UNCHANGED <<cases, selectedCase, selAlias, billingAnalysis,
                 clickedRegions, selectedRegion, isAnalyzing, isVerifying,
                 isDownloading, analyzeReq, verifyReq, billingFetches,
                 loadReqs, deleteReq, createReq, server, nextId,
                 updateReq, revenueReqs, logReqs, ackLog, viewVars>>

\* Save Changes calls handleUpdateCase, whose closure holds editingCase,
\* editForm and selectedCase of the render it was clicked in.
UpdateCase ==
  /\ UserOp
  /\ Room
  /\ editingCase # Null
  /\ updateReq = Null
  /\ \E form \in EditForms :
       updateReq' = [slide_id |-> editingCase.slide_id,
                     form     |-> form,
                     selMatch |-> selectedCase # Null
                                    /\ selectedCase.slide_id
                                         = editingCase.slide_id]
  /\ lastOp' = [op |-> "update", id |-> editingCase.slide_id]
  /\ UNCHANGED <<cases, selectedCase, selAlias, billingAnalysis,
                 clickedRegions, selectedRegion, isAnalyzing, isVerifying,
                 isDownloading, analyzeReq, verifyReq, billingFetches,
                 loadReqs, deleteReq, createReq, server, nextId,
                 editingCase, revenueReqs, logReqs, ackLog, viewVars>>

\* Continuation after updateCase resolved: the fields are written to the
\* captured slide id in cases, and to whatever case is selected now when
\* the captured selection was the edited case.
UpdateSuccess(req) ==
  LET sel == IF selectedCase = Null THEN Null
             ELSE WithForm(selectedCase, req.form)
  IN /\ cases' = SetForm(cases, req.slide_id, req.form)
     /\ FilterEffect(searchQuery, statusFilter)
     /\ IF req.selMatch
          THEN /\ selectedCase' = sel
               /\ selAlias' = FALSE
               /\ billingAnalysis' = EffectBilling(sel, billingAnalysis)
               /\ billingFetches' = EffectFetches(sel)
               /\ deleteReq' = DelTrack({req.slide_id},
                                        IF sel # Null THEN -1 ELSE 0)
          ELSE /\ selAlias' = (selAlias /\ selectedCase # Null
                                 /\ selectedCase.slide_id # req.slide_id)
               /\ deleteReq' = DelTrack({req.slide_id}, 0)
               /\ UNCHANGED <<selectedCase, billingAnalysis, billingFetches>>

UpdateOK ==
  /\ updateReq # Null
  /\ HasSlide(server, updateReq.slide_id)
  /\ UpdateSuccess(updateReq)
  /\ server' = ServerUpdate(server, updateReq.slide_id, updateReq.form)
  /\ editingCase' = Null
  /\ updateReq' = Null
  /\ lastOp' = [op |-> "updateOK", id |-> updateReq.slide_id]
  /\ UNCHANGED <<clickedRegions, selectedRegion, isAnalyzing, isVerifying,
                 isDownloading, analyzeReq, verifyReq, loadReqs, createReq,
                 nextId, ops, revenueReqs, logReqs, ackLog, filterVars>>

UpdateFail ==
  /\ updateReq # Null
  /\ updateReq' = Null
  /\ lastOp' = [op |-> "updateFail", id |-> updateReq.slide_id]
  /\ UNCHANGED <<cases, selectedCase, selAlias, billingAnalysis,
                 clickedRegions, selectedRegion, isAnalyzing, isVerifying,
                 isDownloading, analyzeReq, verifyReq, billingFetches,
                 loadReqs, deleteReq, createReq, server, nextId, ops,
                 editingCase, revenueReqs, logReqs, ackLog, viewVars>>

\* -------------------------------------------------------- specification
Next ==
  \/ LoadCases \/ LoadCasesOK \/ LoadCasesFail
  \/ SelectCase
  \/ Analyze \/ AnalyzeOK \/ AnalyzeFail
  \/ BillingFetchOK \/ BillingFetchFail
  \/ RegionClick \/ LogRegionClickOK \/ LogRegionClickFail
  \/ Verify \/ VerifyOK \/ VerifyFail
  \/ DownloadPDF \/ DownloadTimer
  \/ DeleteCase \/ DeleteOK \/ DeleteFail
  \/ CreateCase \/ CreateOK \/ CreateFail \/ CreateUploadDone
  \/ CreateLoadOK \/ CreateLoadFail \/ CreateGetOK
  \/ LoadRevenueSummaryOK \/ LoadRevenueSummaryFail
  \/ OpenEditModal \/ UpdateCase \/ UpdateOK \/ UpdateFail

Spec == Init /\ [][Next]_vars

\* The same program with one more user operation in every behaviour.
DeepInit == InitWith(MaxDeepOps)

DeepSpec == DeepInit /\ [][Next]_vars

\* ------------------------------------------------- the search and filter
\* onChange of the search input: the value after one more key stroke, a
\* character appended or the last one deleted.
SetSearchQuery ==
  /\ \E value \in {Append(searchQuery, c) : c \in Chars}
                   \cup {SubSeq(searchQuery, 1, Len(searchQuery) - 1)} :
       /\ value # searchQuery
       /\ Len(value) <= MaxQueryLen
       /\ searchQuery' = value
  /\ lastOp' = [op |-> "search", id |-> 0]
  /\ UNCHANGED <<cases, selectedCase, selAlias, billingAnalysis,
                 clickedRegions, selectedRegion, isAnalyzing, isVerifying,
                 isDownloading, analyzeReq, verifyReq, billingFetches,
                 loadReqs, deleteReq, createReq, server, nextId, ops,
                 editVars, revenueReqs, logReqs, ackLog, statusFilter>>
  /\ FilterEffect(searchQuery', statusFilter)

\* The X button of the search input, shown while the query is not empty.
ClearSearch ==
  /\ searchQuery # <<>>
  /\ searchQuery' = <<>>
  /\ lastOp' = [op |-> "clearSearch", id |-> 0]
  /\ UNCHANGED <<cases, selectedCase, selAlias, billingAnalysis,
                 clickedRegions, selectedRegion, isAnalyzing, isVerifying,
                 isDownloading, analyzeReq, verifyReq, billingFetches,
                 loadReqs, deleteReq, createReq, server, nextId, ops,
                 editVars, revenueReqs, logReqs, ackLog, statusFilter>>
  /\ FilterEffect(searchQuery', statusFilter)

\* The All button: setStatusFilter(null).
SetStatusFilterAll ==
  /\ statusFilter' = NoStatusFilter
  /\ lastOp' = [op |-> "statusAll", id |-> 0]
  /\ UNCHANGED <<cases, selectedCase, selAlias, billingAnalysis,
                 clickedRegions, selectedRegion, isAnalyzing, isVerifying,
                 isDownloading, analyzeReq, verifyReq, billingFetches,
                 loadReqs, deleteReq, createReq, server, nextId, ops,
                 editVars, revenueReqs, logReqs, ackLog, searchQuery>>
  /\ FilterEffect(searchQuery, statusFilter')

\* A status button, rendered for every status some case has:
\* setStatusFilter(statusFilter === key ? null : key).
ToggleStatusFilter ==
  /\ \E k \in 1..Len(Statuses) :
       /\ \E i \in 1..Len(cases) : cases[i].status = Statuses[k]
       /\ statusFilter' = IF statusFilter = Statuses[k] THEN NoStatusFilter
                                                        ELSE Statuses[k]
  /\ lastOp' = [op |-> "statusFilter", id |-> 0]
  /\ UNCHANGED <<cases, selectedCase, selAlias, billingAnalysis,
                 clickedRegions, selectedRegion, isAnalyzing, isVerifying,
                 isDownloading, analyzeReq, verifyReq, billingFetches,
                 loadReqs, deleteReq, createReq, server, nextId, ops,
                 editVars, revenueReqs, logReqs, ackLog, searchQuery>>
  /\ FilterEffect(searchQuery, statusFilter')

\* The backend tables the filter is explored on: up to MaxFilterCases rows,
\* each pending or verified, with the letter of the alphabet in one of the
\* three text fields.
FilterTexts ==
  {[patient_id |-> <<"x">>, patient_name |-> <<"A">>, diagnosis |-> <<"x">>],
   [patient_id |-> <<"a">>, patient_name |-> <<"x">>, diagnosis |-> <<"x">>],
   [patient_id |-> <<"x">>, patient_name |-> <<"x">>,
    diagnosis |-> PendingDiagnosis]}

FilterRow(id, st, txt) ==
  [slide_id |-> id, status |-> st, image |-> TRUE,
   shape |-> IF st = "PENDING" THEN 0 ELSE 1,
   patient_id |-> txt.patient_id, patient_name |-> txt.patient_name,
   diagnosis |-> txt.diagnosis]

FilterTables ==
  UNION { [1..n -> [st : {"PENDING", "VERIFIED"}, txt : FilterTexts]] :
            n \in 0..MaxFilterCases }

\* The state after the mount effect and the requests it started have
\* completed, for any of the backend tables above.
FilterInit ==
  \E tbl \in FilterTables :
    LET rows == [i \in 1..Len(tbl) |-> FilterRow(i, tbl[i].st, tbl[i].txt)]
        data == [i \in 1..Len(rows) |-> AsCase(rows[i])]
    IN /\ server = rows
       /\ cases = data
       /\ filteredCases = data
       /\ selectedCase = IF Len(data) > 0 THEN data[1] ELSE Null
       /\ selAlias = (Len(data) > 0)
       /\ billingAnalysis =
            IF Len(data) > 0 /\ rows[1].shape # 0
              THEN [slide_id |-> 1, shape |-> rows[1].shape] ELSE Null
       /\ clickedRegions = {}
       /\ selectedRegion = 0
       /\ isAnalyzing = FALSE
       /\ isVerifying = FALSE
       /\ isDownloading = FALSE
       /\ analyzeReq = Null
       /\ verifyReq = Null
       /\ billingFetches = {}
       /\ loadReqs = {}
       /\ deleteReq = Null
       /\ createReq = Null
       /\ nextId = Len(rows) + 1
       /\ editingCase = Null
       /\ updateReq = Null
       /\ revenueReqs = 0
       /\ logReqs = EmptyBag
       /\ searchQuery = <<>>
       /\ statusFilter = NoStatusFilter
       /\ ackLog = {}
       /\ ops = 0
       /\ lastOp = [op |-> "mount", id |-> 0]

FilterNext ==
  \/ SetSearchQuery \/ ClearSearch
  \/ SetStatusFilterAll \/ ToggleStatusFilter

FilterSpec == FilterInit /\ [][FilterNext]_vars

\* =============================================================== claims
StatusOf(s, id) == Find(s, id).status

\* C1: a documentVerification request is only ever issued with a non-empty
\* acknowledged-region set: the request in flight carries the set the
\* handler read when it was issued, and that set is never empty.
C1_VerifyNeedsAcknowledgedRegion ==
  verifyReq # Null => verifyReq.clicked # {}

C1_Witness ==
  /\ lastOp.op = "verify"
  /\ verifyReq # Null
  /\ verifyReq.clicked = clickedRegions

\* C2: for a selected case that is not VERIFIED or EXPORTED, with no verify
\* or download in progress, the Verify button is enabled exactly when the
\* acknowledged-region set is non-empty.
C2_EnabledIffAcknowledged ==
  (selectedCase # Null /\ ~isVerified /\ ~isVerifying /\ ~isDownloading)
    => (~VerifyButtonDisabled <=> clickedRegions # {})

\* C3: the status recorded for a slide id never moves backward, neither in
\* the case collection nor in the selected-case copy.
C3_StatusMonotonic ==
  [][ /\ \A i \in 1..Len(cases) :
           HasSlide(cases', cases[i].slide_id)
             => Rank(StatusOf(cases', cases[i].slide_id))
                  >= Rank(cases[i].status)
      /\ (selectedCase # Null /\ selectedCase' # Null
            /\ selectedCase'.slide_id = selectedCase.slide_id)
           => Rank(selectedCase'.status) >= Rank(selectedCase.status) ]_vars

\* C4: every status change of a case is one edge of the state machine:
\* PENDING -> ANALYZED on analyze success, ANALYZED -> VERIFIED on verify
\* success, VERIFIED -> EXPORTED on export; no status is skipped.
IsEdge(old, new, op) ==
  \/ old = "PENDING"  /\ new = "ANALYZED" /\ op = "analyzeOK"
  \/ old = "ANALYZED" /\ new = "VERIFIED" /\ op = "verifyOK"
  \/ old = "VERIFIED" /\ new = "EXPORTED" /\ op = "download"

C4_StatusFollowsEdges ==
  [][ /\ \A i \in 1..Len(cases) :
           (HasSlide(cases', cases[i].slide_id)
              /\ StatusOf(cases', cases[i].slide_id) # cases[i].status)
             => IsEdge(cases[i].status, StatusOf(cases', cases[i].slide_id),
                       lastOp'.op)
      /\ (selectedCase # Null /\ selectedCase' # Null
            /\ selectedCase'.slide_id = selectedCase.slide_id
            /\ selectedCase'.status # selectedCase.status)
           => IsEdge(selectedCase.status, selectedCase'.status, lastOp'.op)
    ]_vars

\* C5: right after a click on a case in the list the acknowledged-region
\* set is empty and no region is selected for detail.
C5_SelectClearsAcknowledged ==
  lastOp.op = "select" => clickedRegions = {} /\ selectedRegion = 0

C5_Witness ==
  /\ lastOp.op = "select"
  /\ selectedCase # Null
  /\ selectedCase.slide_id = lastOp.id
  /\ billingAnalysis # Null
  /\ billingAnalysis.slide_id # selectedCase.slide_id
  /\ clickedRegions = {}

\* C6: right after a click that selects a different case, the analysis
\* result held in state is not the result of the previously selected case.
C6_SelectClearsAnalysis ==
  [][ (lastOp'.op = "select" /\ selectedCase # Null
         /\ selectedCase.slide_id # lastOp'.id)
        => (billingAnalysis' = Null
              \/ billingAnalysis'.slide_id # selectedCase.slide_id) ]_vars

\* C7: whenever a step leaves a different case selected than before, the
\* acknowledged-region set is empty after the step.
C7_SelectionChangeClearsAcknowledged ==
  [][ (selectedCase' # Null
         /\ (selectedCase = Null
               \/ selectedCase.slide_id # selectedCase'.slide_id))
        => clickedRegions' = {} ]_vars

\* C8: when a delete succeeds for a case that was selected when the delete
\* was confirmed and is selected when it completes, afterwards the case is
\* gone from the collection, the analysis result is empty, and the
\* selection is a case of the collection, or none exactly when the
\* collection is empty.
C8_DeleteSelectedFallsBack ==
  [][ (lastOp'.op = "deleteOK" /\ deleteReq.selMatch
         /\ selectedCase # Null /\ selectedCase.slide_id = lastOp'.id)
        => /\ ~HasSlide(cases', lastOp'.id)
           /\ billingAnalysis' = Null
           /\ (selectedCase' = Null <=> Len(cases') = 0)
           /\ (selectedCase' # Null
                 => HasSlide(cases', selectedCase'.slide_id)) ]_vars

\* C9: right after the analyze call for the selected case has failed, the
\* case is PENDING in the collection and in the selected copy and the
\* analysis result is null.
C9_FailedAnalyzeLeavesPending ==
  (lastOp.op = "analyzeFail" /\ selectedCase # Null
     /\ selectedCase.slide_id = lastOp.id)
    => /\ selectedCase.status = "PENDING"
       /\ (HasSlide(cases, lastOp.id)
             => StatusOf(cases, lastOp.id) = "PENDING")
       /\ billingAnalysis = Null

\* C10: while the selected case has no slide image the Analyze button is
\* not offered.
C10_NoAnalyzeWithoutImage ==
  (selectedCase # Null /\ ~selectedCase.image) => ~AnalyzeButtonShown

\* C11: acknowledging a region adds its id to the acknowledged set and
\* nothing else; acknowledging an id that is already in the set leaves the
\* set as it was, so the id is never removed and never held twice.
C11_AcknowledgeIdempotent ==
  [][ lastOp'.op = "regionClick"
        => /\ lastOp'.id \in clickedRegions'
           /\ clickedRegions \subseteq clickedRegions'
           /\ clickedRegions' \subseteq clickedRegions \cup {lastOp'.id}
           /\ (lastOp'.id \in clickedRegions
                 => /\ clickedRegions' = clickedRegions
                    /\ Cardinality(clickedRegions')
                         = Cardinality(clickedRegions)) ]_vars

\* The same region of the selected case clicked twice (both clicks are still
\* being logged) and acknowledged once.
C11_Witness ==
  /\ lastOp.op = "regionClick"
  /\ selectedCase # Null
  /\ CopiesIn([slide_id |-> selectedCase.slide_id, region |-> lastOp.id],
              logReqs) = 2
  /\ clickedRegions = {lastOp.id}
  /\ Cardinality(clickedRegions) = 1

\* C12: the outcome of the logging call does not touch the acknowledgment:
\* the clicked region's id is in the acknowledged set as soon as the click
\* is handled, and neither the success nor the failure of a logging request
\* changes the acknowledged set.
C12_LoggingNeverReverts ==
  [][ /\ lastOp'.op = "regionClick" => lastOp'.id \in clickedRegions'
      /\ lastOp'.op \in {"logOK", "logFail"}
           => clickedRegions' = clickedRegions ]_vars

C12_Witness ==
  /\ lastOp.op = "logFail"
  /\ lastOp.id \in clickedRegions
  /\ logReqs = EmptyBag

\* The slide ids marked EXPORTED in a collection.
Exported(s) == {s[i].slide_id : i \in {k \in 1..Len(s) : s[k].status = "EXPORTED"}}

\* C13: the download handler runs only while the selected case's status is
\* VERIFIED or EXPORTED, and a case is marked EXPORTED, in the collection
\* or at the backend, only by such a download of the selected case (a
\* reload of the collection shows what the backend holds).
C13_ExportOnlyOnceVerified ==
  [][ /\ lastOp'.op = "download"
           => /\ selectedCase # Null
              /\ selectedCase.status \in {"VERIFIED", "EXPORTED"}
              /\ Exported(cases') \subseteq
                   Exported(cases) \cup {selectedCase.slide_id}
              /\ Exported(server') \subseteq
                   Exported(server) \cup {selectedCase.slide_id}
      /\ (cases' # cases
            /\ lastOp'.op \notin {"download", "loadOK", "createLoadOK"})
           => Exported(cases') \subseteq Exported(cases)
      /\ (server' # server /\ lastOp'.op # "download")
           => Exported(server') \subseteq Exported(server) ]_vars

C13_Witness ==
  /\ lastOp.op = "download"
  /\ selectedCase # Null
  /\ selectedCase.slide_id = lastOp.id
  /\ selectedCase.status = "EXPORTED"
  /\ StatusOf(cases, lastOp.id) = "EXPORTED"
  /\ StatusOf(server, lastOp.id) = "EXPORTED"

\* C14: an operation whose remote call fails leaves the case collection
\* (and so every status), the selected case, the analysis result and the
\* acknowledged set as they were: neither the step that issues the call nor
\* the step that handles its failure changes any of them.  Acknowledgment
\* logging is excepted.
C14_FailureLeavesStateIntact ==
  [][ lastOp'.op \in {"load", "analyze", "verify", "create", "update",
                      "delete", "loadFail", "revenueFail", "analyzeFail",
                      "verifyFail", "createFail", "createLoadFail",
                      "updateFail", "deleteFail", "fetchFail"}
        => UNCHANGED <<cases, selectedCase, billingAnalysis,
                       clickedRegions>> ]_vars

\* C15: a successful loadCases stores the fetched collection, selects its
\* first entry when no case is selected, and leaves an existing selection
\* alone.
C15_LoadSelectsFirstOnlyIfNone ==
  [][ lastOp'.op \in {"loadOK", "createLoadOK"}
        => /\ cases' = GetCases
           /\ (selectedCase = Null /\ Len(cases') > 0)
                => selectedCase' = cases'[1]
           /\ (selectedCase = Null /\ Len(cases') = 0)
                => selectedCase' = Null
           /\ selectedCase # Null => selectedCase' = selectedCase ]_vars

\* C18: the step that completes a successful verify, a successful delete
\* and a successful create issues a revenue-summary fetch.
C18_RevenueRefreshedAfterSuccess ==
  [][ lastOp'.op \in {"verifyOK", "deleteOK", "createGetOK"}
        => revenueReqs' = revenueReqs + 1 ]_vars

\* C19: a successful update writes the form's patient id, patient name and
\* diagnosis to the case with the edited slide id, in the collection and in
\* the selected copy when that case is selected, and changes nothing else:
\* no status, no other case, no other selected case.
C19_UpdateChangesOnlyEditedCase ==
  [][ lastOp'.op = "updateOK"
        => LET id   == lastOp'.id
               form == updateReq.form
           IN /\ Len(cases') = Len(cases)
              /\ \A i \in 1..Len(cases) :
                   cases'[i] = IF cases[i].slide_id = id
                                 THEN WithForm(cases[i], form) ELSE cases[i]
              /\ selectedCase' =
                   IF selectedCase # Null /\ selectedCase.slide_id = id
                     THEN WithForm(selectedCase, form) ELSE selectedCase
    ]_vars

\* C20: when a verification request is issued for the selected case C, the
\* analysis result held is C's, and some acknowledged id is a region of
\* that analysis that was clicked while C was selected and that analysis
\* was the one held.
C20_GateMetOnThisCase ==
  [][ lastOp'.op = "verify"
        => /\ billingAnalysis.slide_id = selectedCase.slide_id
           /\ \E e \in ackLog :
                /\ e.id \in clickedRegions
                /\ e.id \in Regions(billingAnalysis.shape)
                /\ e.slide_id = selectedCase.slide_id
                /\ e.analysis = billingAnalysis ]_vars

\* The words of the search contract: one of the four searched fields
\* contains the query, both taken case-insensitively.
ContainsQuery(c, q) ==
  \/ Includes(ToLowerCase(c.patient_name), ToLowerCase(q))
  \/ Includes(ToLowerCase(SlideIdText(c.slide_id)), ToLowerCase(q))
  \/ Includes(ToLowerCase(c.patient_id), ToLowerCase(q))
  \/ Includes(ToLowerCase(c.diagnosis), ToLowerCase(q))

InView(c, view) == \E j \in 1..Len(view) : view[j] = c

\* C16: with no status filter, a case of the collection is in the filtered
\* view exactly when one of its patient name, slide id, patient id and
\* diagnosis contains the query case-insensitively, for every query, the
\* empty, the whitespace-only and the whitespace-padded ones included.
C16_ViewIsExactlyTheMatches ==
  statusFilter = NoStatusFilter
    => \A i \in 1..Len(cases) :
         InView(cases[i], filteredCases) <=> ContainsQuery(cases[i], searchQuery)

\* C17: with a status filter set, the filtered view holds exactly the cases
\* that the text query keeps (the view the same collection and query give
\* with no status filter) and whose status equals the filter, in the order
\* of the collection; no case of the view has another status.
C17_StatusFilterIntersects ==
  statusFilter # NoStatusFilter
    => LET textMatches == FilteredCases(cases, searchQuery, NoStatusFilter)
       IN /\ \A i \in 1..Len(cases) :
               InView(cases[i], filteredCases)
                 <=> /\ InView(cases[i], textMatches)
                     /\ cases[i].status = statusFilter
          /\ \A j \in 1..Len(filteredCases) :
               filteredCases[j].status = statusFilter
          /\ Len(filteredCases) <= Len(textMatches)

C17_Witness ==
  /\ lastOp.op = "statusFilter"
  /\ statusFilter = "VERIFIED"
  /\ Len(cases) = 2
  /\ cases[1].status = "PENDING"
  /\ cases[2].status = "VERIFIED"
  /\ Len(filteredCases) = 1
  /\ filteredCases[1] = cases[2]

\* C21: whenever no case-detail fetch and no analyze call is in flight, the
\* analysis result is empty or is the result for the selected case.
C21_AnalysisIsOfSelectedCase ==
  (billingFetches = {} /\ analyzeReq = Null /\ billingAnalysis # Null)
    => /\ selectedCase # Null
       /\ billingAnalysis.slide_id = selectedCase.slide_id

\* C22: a successful analyze or verify changes the status of the case it
\* was issued for and of no other: in the collection only the entry with
\* the call's slide id changes, the selected copy changes only when it is
\* that case, and afterwards the selected copy and the collection entry
\* with the same slide id agree on the status.
C22_StatusChangesOnlyOnIssuedCase ==
  [][ lastOp'.op \in {"analyzeOK", "verifyOK"}
        => LET id == lastOp'.id
           IN /\ \A i \in 1..Len(cases) :
                   cases[i].slide_id # id => cases'[i] = cases[i]
              /\ (selectedCase # Null /\ selectedCase.slide_id # id)
                   => selectedCase'.status = selectedCase.status
              /\ (selectedCase' # Null
                    /\ HasSlide(cases', selectedCase'.slide_id))
                   => selectedCase'.status
                        = StatusOf(cases', selectedCase'.slide_id) ]_vars

\* C23: the analysis result stored by a successful analyze is still the
\* analysis result after the case-detail fetch for that case, re-triggered
\* by the status change, has completed in the very next step, with success
\* or with failure.
C23_AnalysisSurvivesRefetch ==
  [][ (/\ lastOp.op = "analyzeOK"
       /\ lastOp'.op \in {"fetchOK", "fetchFail"}
       /\ lastOp'.id = lastOp.id
       /\ billingAnalysis # Null
       /\ billingAnalysis.slide_id = lastOp.id)
        => billingAnalysis' = billingAnalysis ]_vars

\* C24: the indicators a verification request carries are non-empty
\* whenever the acknowledged set it was built from is non-empty.
C24_IndicatorsFollowAcknowledged ==
  [][ lastOp'.op = "verify"
        => (verifyReq'.clicked # {}
              => IndicatorsClicked(verifyReq'.billing.shape,
                                   verifyReq'.clicked) # {}) ]_vars

\* C25: right after the export action the selected case is EXPORTED in the
\* selected copy and in the collection, whatever its status was before.
C25_ExportMarksExported ==
  [][ lastOp'.op = "download"
        => /\ selectedCase' # Null
           /\ selectedCase'.slide_id = lastOp'.id
           /\ selectedCase'.status = "EXPORTED"
           /\ HasSlide(cases', lastOp'.id)
           /\ StatusOf(cases', lastOp'.id) = "EXPORTED" ]_vars

\* C26: the selected case is always a case of the collection.
C26_SelectionInCollection ==
  selectedCase # Null => HasSlide(cases, selectedCase.slide_id)

\* C27: the completion of a delete of a case that was not the selected case
\* when the delete was confirmed removes that case from the collection,
\* keeps every other entry, and leaves the selected case, the analysis
\* result and the acknowledged set as they were.
C27_DeleteOfOtherCaseKeepsSelection ==
  [][ (lastOp'.op = "deleteOK" /\ ~deleteReq.selMatch)
        => /\ cases' = WithoutSlide(cases, lastOp'.id)
           /\ ~HasSlide(cases', lastOp'.id)
           /\ \A i \in 1..Len(cases) :
                cases[i].slide_id # lastOp'.id => InView(cases[i], cases')
           /\ UNCHANGED <<selectedCase, billingAnalysis,
                          clickedRegions>> ]_vars

\* A case other than the selected one was deleted while an analysis was
\* displayed and a region acknowledged.
C27_Witness ==
  /\ lastOp.op = "deleteOK"
  /\ selectedCase # Null
  /\ selectedCase.slide_id # lastOp.id
  /\ HasSlide(cases, selectedCase.slide_id)
  /\ ~HasSlide(cases, lastOp.id)
  /\ billingAnalysis # Null
  /\ clickedRegions # {}

\* v is s with some entries left out: the entries of v are matched, in
\* order, against s from left to right.
IsSubsequence(v, s) ==
  LET matched[i \in 0..Len(s)] ==
        IF i = 0 THEN 0
        ELSE IF matched[i-1] < Len(v) /\ v[matched[i-1] + 1] = s[i]
               THEN matched[i-1] + 1 ELSE matched[i-1]
  IN matched[Len(s)] = Len(v)

\* C28: a change of the query or of the status filter recomputes the view
\* and changes neither the collection (so no status), nor the selected
\* case, nor the backend; the view it stores is a subsequence of the
\* collection in the collection's order.
C28_FilterViewIsDerived ==
  [][ lastOp'.op \in {"search", "clearSearch", "statusAll", "statusFilter"}
        => /\ UNCHANGED <<cases, selectedCase, server, billingAnalysis,
                          clickedRegions>>
           /\ IsSubsequence(filteredCases', cases') ]_vars

\* A query that keeps the second of two cases only.
C28_Witness ==
  /\ lastOp.op = "search"
  /\ searchQuery # <<>>
  /\ statusFilter = NoStatusFilter
  /\ Len(cases) = 2
  /\ filteredCases = <<cases[2]>>

\* The calls handleAddCase makes, in their order.
CreatePhases == <<"create", "upload", "load", "get">>

PhaseRank(ph) == CHOOSE i \in 1..4 : CreatePhases[i] = ph

\* C29: a remote call of an analyze, verify, create, update, delete or load
\* is put in flight only by the step in which the user triggers that
\* action; the step that handles a failure takes the failed call out of
\* flight and starts none, and handleAddCase moves through its calls
\* forward only.
C29_NoAutomaticRetry ==
  [][ /\ (analyzeReq' # Null /\ analyzeReq' # analyzeReq)
           => (lastOp'.op = "analyze" /\ ops' = ops - 1)
      /\ (verifyReq' # Null /\ verifyReq' # verifyReq)
           => (lastOp'.op = "verify" /\ ops' = ops - 1)
      /\ (deleteReq' # Null /\ deleteReq = Null)
           => (lastOp'.op = "delete" /\ ops' = ops - 1)
      /\ (updateReq' # Null /\ updateReq' # updateReq)
           => (lastOp'.op = "update" /\ ops' = ops - 1)
      /\ (createReq' # Null /\ createReq = Null)
           => (lastOp'.op = "create" /\ ops' = ops - 1)
      /\ (createReq' # Null /\ createReq # Null /\ createReq' # createReq)
           => PhaseRank(createReq'.phase) > PhaseRank(createReq.phase)
      /\ ~(loadReqs' \subseteq loadReqs)
           => (lastOp'.op = "load" /\ ops' = ops - 1)
      /\ lastOp'.op = "analyzeFail" => analyzeReq' = Null
      /\ lastOp'.op = "verifyFail" => verifyReq' = Null
      /\ lastOp'.op = "deleteFail" => deleteReq' = Null
      /\ lastOp'.op = "updateFail" => updateReq' = Null
      /\ lastOp'.op = "createFail" => createReq' = Null
      /\ lastOp'.op = "loadFail"
           => (loadReqs' \subseteq loadReqs /\ loadReqs' # loadReqs)
      /\ lastOp'.op \in {"analyzeFail", "verifyFail", "deleteFail",
                         "updateFail", "createFail", "loadFail"}
           => Cardinality(billingFetches') + revenueReqs'
                + BagCardinality(logReqs')
                = Cardinality(billingFetches) + revenueReqs
                    + BagCardinality(logReqs) ]_vars

\* A failed analyze: nothing is in flight for it and the button is back.
C29_Witness ==
  /\ lastOp.op = "analyzeFail"
  /\ analyzeReq = Null
  /\ ~isAnalyzing
  /\ selectedCase # Null
  /\ selectedCase.status = "PENDING"

\* C30: a failed image upload is caught: the backend keeps the created
\* case and handleAddCase goes on to reload the collection as it does
\* after a successful upload or with no image chosen; the reload then puts
\* the created case in the collection and the second fetch makes it the
\* selected case (as long as the backend still has it).
C30_UploadFailureKeepsCreate ==
  [][ /\ lastOp'.op = "uploadFail"
           => /\ createReq' # Null
              /\ createReq' = [createReq EXCEPT !.phase = "load"]
              /\ UNCHANGED <<server, cases, selectedCase>>
      /\ (lastOp'.op = "createLoadOK" /\ HasSlide(server, lastOp'.id))
           => HasSlide(cases', lastOp'.id)
      /\ (lastOp'.op = "createGetOK" /\ HasSlide(server, lastOp'.id))
           => /\ selectedCase' # Null
              /\ selectedCase'.slide_id = lastOp'.id ]_vars

\* The upload for the created case has just failed: the backend holds the
\* case without image and the reload of the collection is the next call.
C30_Witness ==
  /\ lastOp.op = "uploadFail"
  /\ createReq # Null
  /\ createReq.phase = "load"
  /\ createReq.id = lastOp.id
  /\ HasSlide(server, lastOp.id)
  /\ ~Find(server, lastOp.id).image

====
